---- MODULE Spec2Model ----
(***************************************************************************)
(* whisper-api/main.py: the /transcribe, /health and / handlers of the     *)
(* Whisper transcription service, run by one or more worker processes      *)
(* that share the file system (and so the temp directory) but not the      *)
(* module global _model.  The handlers are "async def" bodies without an   *)
(* await, so one worker runs one handler at a time; workers interleave at  *)
(* every access to the file system.                                        *)
(***************************************************************************)
EXTENDS Naturals, Sequences, FiniteSets, TLC

(* ------------------------------ bounds --------------------------------- *)
NumWorkers == 2
MaxNames == 2

Workers == {"w" \o ToString(i) : i \in 1..NumWorkers}
FirstWorker == "w1"
\* what next(tempfile._get_candidate_names()) may return: a random name
CandidateNames == {"n" \o ToString(i) : i \in 1..MaxNames}

(* ----------------------------- constants ------------------------------- *)
None == "None"
NoHandle == 0
temp_dir == "/tmp/whisper_api"
\* variant: a fifth format slipped into the list
valid_formats_plus_ogg == <<".mp3", ".wav", ".m4a", ".webm", ".ogg">>
valid_formats == <<".mp3", ".wav", ".m4a", ".webm">>

(* ------------------------- strings and paths --------------------------- *)
\* A filename is a sequence of one-character strings.
UpperChars == <<"A","B","C","D","E","F","G","H","I","J","K","L","M",
                "N","O","P","Q","R","S","T","U","V","W","X","Y","Z">>
LowerChars == <<"a","b","c","d","e","f","g","h","i","j","k","l","m",
                "n","o","p","q","r","s","t","u","v","w","x","y","z">>

LowerChar(c) ==
    IF \E i \in 1..Len(UpperChars) : UpperChars[i] = c
    THEN LowerChars[CHOOSE i \in 1..Len(UpperChars) : UpperChars[i] = c]
    ELSE c

\* str.lower()
lower(s) == [i \in 1..Len(s) |-> LowerChar(s[i])]

\* str.rfind(c), 1-based, 0 when absent
rfind(s, c) ==
    IF \E i \in 1..Len(s) : s[i] = c
    THEN CHOOSE i \in 1..Len(s) : s[i] = c /\ \A j \in (i+1)..Len(s) : s[j] # c
    ELSE 0

\* PurePath.name: the final path component
name(s) == SubSeq(s, rfind(s, "/") + 1, Len(s))

\* PurePath.suffix: the last dot of the final component and what follows it,
\* unless that dot is the component's first or last character
suffix(s) ==
    LET n == name(s)
        i == rfind(n, ".")
    IN  IF 1 < i /\ i < Len(n) THEN SubSeq(n, i, Len(n)) ELSE << >>

RECURSIVE Str(_)
\* the characters of s as one string
Str(s) == IF s = << >> THEN "" ELSE Head(s) \o Str(Tail(s))

RECURSIVE join(_, _)
\* sep.join(parts)
join(sep, parts) ==
    IF parts = << >> THEN ""
    ELSE IF Len(parts) = 1 THEN parts[1]
    ELSE parts[1] \o sep \o join(sep, Tail(parts))

Range(s) == {s[i] : i \in DOMAIN s}

(* ------------------------------ inputs --------------------------------- *)
NoFile == [present |-> FALSE, filename |-> << >>]
Upload(fn) == [present |-> TRUE, filename |-> fn]

Filenames ==
    { <<"a", ".", "w", "a", "v">>,
      <<"a", ".", "M", "P", "3">>,
      <<"a", ".", "m", "4", "a">>,
      <<"a", ".", "W", "e", "b", "m">>,
      <<"a", ".", "o", "g", "g">>,
      <<"a", ".", "w", "a", "v", ".", "t", "x", "t">>,
      <<".", "w", "a", "v">>,
      <<"w", "a", "v">>,
      <<"d", ".", "w", "a", "v", "/", "a">> }

DataFile == "/data/a.wav"
MissingFile == "/data/missing.wav"
\* a leftover of an earlier run, inside the temp root
StaleTemp == temp_dir \o "/n1.wav"

NoReq == [kind |-> "none", file |-> NoFile, file_path |-> None]

\* a path inside the temp root at which nothing exists yet
FreeTemp == temp_dir \o "/n2.wav"

PathInputs == {None, "", DataFile, MissingFile, StaleTemp, FreeTemp}

HealthRequest == [kind |-> "health", file |-> NoFile, file_path |-> None]
RootRequest == [kind |-> "root", file |-> NoFile, file_path |-> None]
PathRequest(fp) == [kind |-> "transcribe", file |-> NoFile, file_path |-> fp]
UploadRequest(fn, fp) == [kind |-> "transcribe", file |-> Upload(fn), file_path |-> fp]

\* the requests of the one-worker specification: every input form
Requests ==
    {PathRequest(fp) : fp \in PathInputs}
    \cup {UploadRequest(fn, fp) : fn \in Filenames, fp \in {None, "", DataFile, MissingFile}}
    \cup {HealthRequest, RootRequest}

\* the requests of the many-worker specification: the ones that meet in the
\* temp directory
SharedRequests ==
    {PathRequest(StaleTemp), PathRequest(FreeTemp),
     UploadRequest(<<"a", ".", "w", "a", "v">>, None),
     UploadRequest(<<"a", ".", "M", "P", "3">>, None),
     HealthRequest, RootRequest}

\* what model.transcribe may return: a mapping with some of the keys
ResultKeys == {{"text", "language", "duration"}, {"text", "language"},
               {"language", "duration"}, {"text"}}
NoResult == [k \in {} |-> 0]
ResultWith(keys) ==
    [k \in keys |-> IF k = "text" THEN "hello"
                    ELSE IF k = "language" THEN "en" ELSE 3]

(* ------------------------------- state --------------------------------- *)
VARIABLES
    fs,          \* the file system: existing path |-> who wrote it last
    _model,      \* per worker: the module global _model
    pc,          \* per worker: position of the running handler
    req,         \* per worker: the request being handled
    temp_file,   \* per worker: local temp_file
    audio_path,  \* per worker: local audio_path
    exc,         \* per worker: the exception in flight
    result,      \* per worker: the value about to be returned
    resp,        \* per worker: the response of the last request
    loads,       \* per worker: successful load_model calls (history)
    trace        \* per worker: what the current request did (history)

vars == <<fs, _model, pc, req, temp_file, audio_path, exc, result, resp,
          loads, trace>>

NoExc == [type |-> "None", status |-> 0, detail |-> "", context |-> "None"]
HTTPException(status, detail) ==
    [type |-> "HTTPException", status |-> status, detail |-> detail,
     context |-> "None"]
Error(type) == [type |-> type, status |-> 0, detail |-> "", context |-> "None"]
\* an exception raised while e is being handled replaces e and keeps its
\* type as __context__
RaisedDuring(type, e) ==
    [type |-> type, status |-> 0, detail |-> "", context |-> e.type]

NoResp == [status |-> 0, detail |-> "", error |-> "None", context |-> "None",
           body |-> << >>]
\* FastAPI: an HTTPException becomes its status and detail, any other
\* exception leaves the handler and becomes a 500
ErrorResponse(e) ==
    IF e.type = "HTTPException"
    THEN [status |-> e.status, detail |-> e.detail, error |-> e.type,
          context |-> e.context, body |-> << >>]
    ELSE [status |-> 500, detail |-> "Internal Server Error", error |-> e.type,
          context |-> e.context, body |-> << >>]
OkResponse(body) ==
    [status |-> 200, detail |-> "", error |-> "None", context |-> "None",
     body |-> body]

NoTrace == [created |-> FALSE, load_calls |-> 0, transcribe_calls |-> 0,
            transcribed |-> None, path_existed |-> "unchecked"]

Init ==
    /\ fs = [x \in {DataFile, StaleTemp} |-> "ext"]
    /\ _model = [p \in Workers |-> NoHandle]
    /\ pc = [p \in Workers |-> "idle"]
    /\ req = [p \in Workers |-> NoReq]
    /\ temp_file = [p \in Workers |-> None]
    /\ audio_path = [p \in Workers |-> None]
    /\ exc = [p \in Workers |-> NoExc]
    /\ result = [p \in Workers |-> NoResult]
    /\ resp = [p \in Workers |-> NoResp]
    /\ loads = [p \in Workers |-> 0]
    /\ trace = [p \in Workers |-> NoTrace]

(* ------------------------- helpers of the steps ------------------------ *)
\* variant: the existence test dropped
AlwaysExists(path) == TRUE
\* os.path.exists(path)
os_path_exists(path) == path \in DOMAIN fs

\* the handler returns or raises: its locals are gone, the response stays
Finish(p, r) ==
    /\ pc' = [pc EXCEPT ![p] = "done"]
    /\ resp' = [resp EXCEPT ![p] = r]
    /\ temp_file' = [temp_file EXCEPT ![p] = None]
    /\ audio_path' = [audio_path EXCEPT ![p] = None]
    /\ exc' = [exc EXCEPT ![p] = NoExc]
    /\ result' = [result EXCEPT ![p] = NoResult]

\* an exception raised inside the try block: control goes to the finally
Raise(p, e) ==
    /\ pc' = [pc EXCEPT ![p] = "finally"]
    /\ exc' = [exc EXCEPT ![p] = e]

\* what leaves the handler once the finally block is through
Outcome(p) ==
    IF exc[p] # NoExc THEN ErrorResponse(exc[p])
    ELSE OkResponse(<<result[p]["transcript"], result[p]["language"],
                      result[p]["duration"]>>)

\* variant: "file_path is None" in place of "not file_path"
NoSourceStrict(r) == ~r.file.present /\ r.file_path = None
\* line 58: not file and not file_path
NoSource(r) == ~r.file.present /\ r.file_path \in {None, ""}

\* variant: the path branch taken whenever a file_path is given
UploadUnlessPath(r) == r.file.present /\ r.file_path \in {None, ""}
\* line 64: if file
UseUpload(r) == r.file.present

\* line 69: suffix.lower() not in valid_formats
Unsupported(sfx) == Str(lower(sfx)) \notin Range(valid_formats)

UnsupportedDetail ==
    "Unsupported file format. Supported formats: " \o join(", ", valid_formats)

\* variant: the "is None" test dropped
AlwaysLoad(p) == TRUE
\* line 37: if _model is None
ShouldLoad(p) == _model[p] = NoHandle

\* variant: the finally block working on audio_path
CleanupAudioPath(p) == audio_path[p]
\* the path the finally block looks at
CleanupTarget(p) == temp_file[p]

\* variant: the cleanup placed after the return value instead of in a finally
CleanupOnSuccessOnly(p) ==
    /\ CleanupTarget(p) # None
    /\ os_path_exists(CleanupTarget(p))
    /\ exc[p] = NoExc
\* line 99: temp_file and os.path.exists(temp_file)
NeedsCleanup(p) ==
    /\ CleanupTarget(p) # None
    /\ os_path_exists(CleanupTarget(p))

(* ------------------------------- steps --------------------------------- *)
\* a worker takes the next request
Receive(p, r) ==
    /\ pc[p] \in {"idle", "done"}
    /\ pc' = [pc EXCEPT ![p] = "start"]
    /\ req' = [req EXCEPT ![p] = r]
    /\ resp' = [resp EXCEPT ![p] = NoResp]
    /\ trace' = [trace EXCEPT ![p] = NoTrace]
    /\ UNCHANGED <<fs, _model, temp_file, audio_path, exc, result, loads>>

\* lines 58-76 and 83-85: the checks, and the choice of the temp name
Validate(p) ==
    /\ pc[p] = "start"
    /\ req[p].kind = "transcribe"
    /\ IF NoSource(req[p])
       THEN /\ Finish(p, ErrorResponse(HTTPException(400, "No audio file provided")))
       ELSE IF UseUpload(req[p])
       THEN LET sfx == suffix(req[p].file.filename) IN
            IF Unsupported(sfx)
            THEN /\ Raise(p, HTTPException(400, UnsupportedDetail))
                 /\ UNCHANGED <<temp_file, audio_path, result, resp>>
            ELSE /\ \E n \in CandidateNames :
                      temp_file' = [temp_file EXCEPT ![p] =
                                       temp_dir \o "/" \o n \o Str(sfx)]
                 /\ pc' = [pc EXCEPT ![p] = "open"]
                 /\ UNCHANGED <<audio_path, exc, result, resp>>
       ELSE IF ~os_path_exists(req[p].file_path)
            THEN /\ Raise(p, HTTPException(404, "File not found: " \o req[p].file_path))
                 /\ UNCHANGED <<temp_file, audio_path, result, resp>>
            ELSE /\ audio_path' = [audio_path EXCEPT ![p] = req[p].file_path]
                 /\ pc' = [pc EXCEPT ![p] = "model"]
                 /\ UNCHANGED <<temp_file, exc, result, resp>>
    /\ trace' = [trace EXCEPT ![p].path_existed =
                    IF NoSource(req[p]) \/ req[p].file.present THEN "unchecked"
                    ELSE IF req[p].file_path \in DOMAIN fs THEN "yes" ELSE "no"]
    /\ UNCHANGED <<fs, _model, req, loads>>

\* line 77: open(temp_file, "wb") creates the file or truncates the one there
OpenTemp(p) ==
    /\ pc[p] = "open"
    /\ fs' = [x \in DOMAIN fs \cup {temp_file[p]} |->
                 IF x = temp_file[p] THEN p ELSE fs[x]]
    /\ trace' = [trace EXCEPT ![p].created = TRUE]
    /\ pc' = [pc EXCEPT ![p] = "copy"]
    /\ UNCHANGED <<_model, req, temp_file, audio_path, exc, result, resp, loads>>

\* lines 78-79: shutil.copyfileobj, which may fail
CopyUpload(p) ==
    /\ pc[p] = "copy"
    /\ \E ok \in BOOLEAN :
          IF ok
          THEN /\ audio_path' = [audio_path EXCEPT ![p] = temp_file[p]]
               /\ pc' = [pc EXCEPT ![p] = "model"]
               /\ UNCHANGED exc
          ELSE /\ Raise(p, Error("OSError"))
               /\ UNCHANGED audio_path
    /\ UNCHANGED <<fs, _model, req, temp_file, result, resp, loads, trace>>

\* lines 35-40, called from line 88: load_model may fail
GetModel(p) ==
    /\ pc[p] = "model"
    /\ \E ok \in BOOLEAN :
          IF ShouldLoad(p)
          THEN /\ trace' = [trace EXCEPT ![p].load_calls = @ + 1]
               /\ IF ok
                  THEN /\ _model' = [_model EXCEPT ![p] = loads[p] + 1]
                       /\ loads' = [loads EXCEPT ![p] = @ + 1]
                       /\ pc' = [pc EXCEPT ![p] = "transcribe"]
                       /\ UNCHANGED exc
                  ELSE /\ Raise(p, Error("LoadError"))
                       /\ UNCHANGED <<_model, loads>>
          ELSE /\ pc' = [pc EXCEPT ![p] = "transcribe"]
               /\ UNCHANGED <<_model, loads, exc, trace>>
    /\ UNCHANGED <<fs, req, temp_file, audio_path, result, resp>>

\* lines 89-95: model.transcribe reads the audio file; its result is a
\* mapping whose "text" and "language" are required
Transcribe(p) ==
    /\ pc[p] = "transcribe"
    /\ trace' = [trace EXCEPT ![p].transcribe_calls = @ + 1,
                              ![p].transcribed = audio_path[p]]
    /\ \E out \in {{}} \cup (IF os_path_exists(audio_path[p]) THEN ResultKeys ELSE {}) :
          IF out = {}
          THEN /\ Raise(p, Error("TranscribeError"))
               /\ UNCHANGED result
          ELSE LET r == ResultWith(out) IN
               IF "text" \notin DOMAIN r \/ "language" \notin DOMAIN r
               THEN /\ Raise(p, Error("KeyError"))
                    /\ UNCHANGED result
               ELSE /\ result' = [result EXCEPT ![p] =
                          [transcript |-> r["text"], language |-> r["language"],
                           duration |-> IF "duration" \in DOMAIN r
                                        THEN r["duration"] ELSE 0]]
                    /\ pc' = [pc EXCEPT ![p] = "finally"]
                    /\ UNCHANGED exc
    /\ UNCHANGED <<fs, _model, req, temp_file, audio_path, resp, loads>>

\* line 99: the test of the finally block
Finally(p) ==
    /\ pc[p] = "finally"
    /\ IF NeedsCleanup(p)
       THEN /\ pc' = [pc EXCEPT ![p] = "remove"]
            /\ UNCHANGED <<temp_file, audio_path, exc, result, resp>>
       ELSE Finish(p, Outcome(p))
    /\ UNCHANGED <<fs, _model, req, loads, trace>>

\* line 100: os.remove raises FileNotFoundError when the file is gone
Remove(p) ==
    /\ pc[p] = "remove"
    /\ IF os_path_exists(CleanupTarget(p))
       THEN /\ fs' = [x \in DOMAIN fs \ {CleanupTarget(p)} |-> fs[x]]
            /\ Finish(p, Outcome(p))
       ELSE /\ Finish(p, ErrorResponse(RaisedDuring("FileNotFoundError", exc[p])))
            /\ UNCHANGED fs
    /\ UNCHANGED <<_model, req, loads, trace>>

\* lines 102-106: GET /health
Health(p) ==
    /\ pc[p] = "start"
    /\ req[p].kind = "health"
    /\ \E ok \in BOOLEAN :
          IF ShouldLoad(p)
          THEN /\ trace' = [trace EXCEPT ![p].load_calls = @ + 1]
               /\ IF ok
                  THEN /\ _model' = [_model EXCEPT ![p] = loads[p] + 1]
                       /\ loads' = [loads EXCEPT ![p] = @ + 1]
                       /\ Finish(p, OkResponse(<<"ok", "base">>))
                  ELSE /\ Finish(p, ErrorResponse(Error("LoadError")))
                       /\ UNCHANGED <<_model, loads>>
          ELSE /\ Finish(p, OkResponse(<<"ok", "base">>))
               /\ UNCHANGED <<_model, loads, trace>>
    /\ UNCHANGED <<fs, req>>

\* variant: GET / written like GET /health
RootLoadingModel(p) ==
    /\ pc[p] = "start"
    /\ req[p].kind = "root"
    /\ trace' = [trace EXCEPT ![p].load_calls = @ + 1]
    /\ _model' = [_model EXCEPT ![p] = loads[p] + 1]
    /\ loads' = [loads EXCEPT ![p] = @ + 1]
    /\ Finish(p, OkResponse(<<"running">>))
    /\ UNCHANGED <<fs, req>>
\* lines 108-111: GET /
Root(p) ==
    /\ pc[p] = "start"
    /\ req[p].kind = "root"
    /\ Finish(p, OkResponse(<<"Whisper Transcription API is running. Post to /transcribe to transcribe audio.">>))
    /\ UNCHANGED <<fs, _model, req, loads, trace>>

Handle(p) ==
    \/ Validate(p)
    \/ OpenTemp(p)
    \/ CopyUpload(p)
    \/ GetModel(p)
    \/ Transcribe(p)
    \/ Finally(p)
    \/ Remove(p)
    \/ Health(p)
    \/ Root(p)

\* several workers on one temp directory
Next ==
    \E p \in Workers :
        \/ \E r \in SharedRequests : Receive(p, r)
        \/ Handle(p)

Spec == Init /\ [][Next]_vars

\* one worker, every input form
NextOne ==
    \/ \E r \in Requests : Receive(FirstWorker, r)
    \/ Handle(FirstWorker)

SpecOne == Init /\ [][NextOne]_vars

(* ------------------------------ properties ----------------------------- *)
InFlight(p) == pc[p] \notin {"idle", "done"}
Truthy(fp) == fp \notin {None, ""}
PathOnly(r) == r.kind = "transcribe" /\ ~r.file.present /\ Truthy(r.file_path)
TranscriptionFailures == {"LoadError", "TranscribeError"}
TempPaths(fn) == {temp_dir \o "/" \o n \o Str(suffix(fn)) : n \in CandidateNames}

\* C1: when the handling of an upload that created its temp file ends, on
\* whatever exit path, the temp file does not exist.
C1_TempFileGoneAtExit ==
    [][\A p \in Workers :
          (pc[p] # "done" /\ pc'[p] = "done" /\ trace[p].created)
              => temp_file[p] \notin DOMAIN fs']_vars

\* C1 witness: an upload whose transcribe call failed has ended and left no
\* file of its own behind.
C1_Witness ==
    \E p \in Workers :
        /\ pc[p] = "done"
        /\ trace[p].created
        /\ resp[p].error = "TranscribeError"
        /\ \A x \in DOMAIN fs : fs[x] # p

\* C2: a /transcribe request with no upload and no (or an empty) file_path
\* gets 400 "No audio file provided" and has created no temp file.
C2_NoSourceRejected ==
    \A p \in Workers :
        (/\ pc[p] = "done"
         /\ req[p].kind = "transcribe"
         /\ ~req[p].file.present
         /\ req[p].file_path \in {None, ""})
            => /\ resp[p].status = 400
               /\ resp[p].detail = "No audio file provided"
               /\ ~trace[p].created
               /\ \A x \in DOMAIN fs : fs[x] # p

\* C2 witness: the request with the empty file_path has been answered 400.
C2_Witness ==
    \E p \in Workers :
        /\ pc[p] = "done"
        /\ req[p] = PathRequest("")
        /\ resp[p].status = 400

\* C3: an upload whose extension, lower-cased, is none of the four formats
\* gets 400 with the message listing exactly the four, creates no temp file,
\* and none of its steps changes the file system.
C3_UnsupportedRejected ==
    [][\A p \in Workers :
          (/\ InFlight(p)
           /\ pc'[p] # pc[p]
           /\ req[p].kind = "transcribe"
           /\ req[p].file.present
           /\ Str(lower(suffix(req[p].file.filename)))
                 \notin {".mp3", ".wav", ".m4a", ".webm"})
              => /\ fs' = fs
                 /\ ~trace'[p].created
                 /\ pc'[p] = "done" =>
                       /\ resp'[p].status = 400
                       /\ resp'[p].detail =
                            "Unsupported file format. Supported formats: .mp3, .wav, .m4a, .webm"]_vars

\* C3 witness: the upload of "a.ogg" has been answered 400.
C3_Witness ==
    \E p \in Workers :
        /\ pc[p] = "done"
        /\ req[p].file.present
        /\ req[p].file.filename = <<"a", ".", "o", "g", "g">>
        /\ resp[p].status = 400
        /\ ~trace[p].created

\* C4: a request without an upload whose file_path did not exist when it was
\* checked gets 404 with the path in the detail, creates no temp file and
\* never calls transcribe.
C4_MissingPathRejected ==
    \A p \in Workers :
        (/\ pc[p] = "done"
         /\ PathOnly(req[p])
         /\ trace[p].path_existed = "no")
            => /\ resp[p].status = 404
               /\ resp[p].detail = "File not found: " \o req[p].file_path
               /\ ~trace[p].created
               /\ trace[p].transcribe_calls = 0

\* C4 witness: the request was answered 404 although the path exists by now.
C4_Witness ==
    \E p \in Workers :
        /\ pc[p] = "done"
        /\ req[p] = PathRequest(FreeTemp)
        /\ resp[p].status = 404
        /\ FreeTemp \in DOMAIN fs

\* C5: no step of a request that names an existing file_path (and has no
\* upload) changes the file system; transcribe is called on that very path,
\* and is called whenever the model could be obtained.
C5_PathRequestTouchesNoFile ==
    [][\A p \in Workers :
          (InFlight(p) /\ pc'[p] # pc[p] /\ PathOnly(req[p]))
              => /\ fs' = fs
                 /\ ~trace'[p].created
                 /\ trace'[p].transcribed \in {None, req[p].file_path}
                 /\ (pc'[p] = "done" /\ trace[p].path_existed = "yes"
                       /\ resp'[p].error # "LoadError")
                        => /\ trace[p].transcribe_calls = 1
                           /\ trace[p].transcribed = req[p].file_path]_vars

\* C5 witness: a request on a file inside the temp root has ended with a
\* failed transcribe call, and the file is still there.
C5_Witness ==
    \E p \in Workers :
        /\ pc[p] = "done"
        /\ req[p] = PathRequest(StaleTemp)
        /\ resp[p].error = "TranscribeError"
        /\ trace[p].transcribed = StaleTemp
        /\ StaleTemp \in DOMAIN fs

\* C6: in one process load_model succeeds at most once, and once _model is
\* set no step changes it.
C6_ModelLoadedOnce ==
    [][\A p \in Workers :
          /\ loads'[p] <= 1
          /\ _model[p] # NoHandle => _model'[p] = _model[p]]_vars

\* C6 witness: a /health request served from the handle loaded earlier.
C6_Witness ==
    \E p \in Workers :
        /\ pc[p] = "done"
        /\ req[p].kind = "health"
        /\ resp[p].status = 200
        /\ trace[p].load_calls = 0
        /\ loads[p] = 1

\* C7 as stated: transcribe is called only for requests in which exactly one
\* of upload and file_path is populated.
C7_ExactlyOneSource ==
    \A p \in Workers :
        trace[p].transcribe_calls > 0
            => (req[p].file.present # Truthy(req[p].file_path))

\* C7 as amended: transcribe is called only for requests in which at least
\* one of upload and file_path is populated; a request with an upload is
\* handled as an upload whatever its file_path: never answered 404, and
\* transcribed, if at all, from its temp copy.
C7_AtLeastOneSource ==
    \A p \in Workers :
        /\ trace[p].transcribe_calls > 0
              => (req[p].file.present \/ Truthy(req[p].file_path))
        /\ (req[p].kind = "transcribe" /\ req[p].file.present)
              => /\ resp[p].status # 404
                 /\ trace[p].path_existed = "unchecked"
                 /\ trace[p].transcribe_calls > 0
                       => /\ trace[p].created
                          /\ trace[p].transcribed \in TempPaths(req[p].file.filename)

\* C7 witness: a request with both an upload and a file_path was transcribed
\* from the temp copy.
C7_Witness ==
    \E p \in Workers :
        /\ pc[p] = "done"
        /\ req[p].file.present
        /\ Truthy(req[p].file_path)
        /\ resp[p].status = 200
        /\ trace[p].transcribed # req[p].file_path

\* C8: when the load or the transcribe call of a request failed, the error
\* that leaves the handler is that failure, also when the cleanup failed.
C8_CleanupKeepsOriginalError ==
    \A p \in Workers :
        (/\ pc[p] = "done"
         /\ (resp[p].error \in TranscriptionFailures
             \/ resp[p].context \in TranscriptionFailures))
            => resp[p].error \in TranscriptionFailures

\* C9: no two requests in flight have the same temp file path, no request
\* opens a temp path at which a file exists, and the file a request writes
\* to or removes is the one it created.
C9_TempFileExclusive ==
    /\ \A p, q \in Workers :
          (p # q /\ temp_file[p] # None /\ temp_file[q] # None)
              => temp_file[p] # temp_file[q]
    /\ \A p \in Workers :
          pc[p] = "open" => temp_file[p] \notin DOMAIN fs
    /\ \A p \in Workers :
          (pc[p] \in {"copy", "remove"} /\ temp_file[p] \in DOMAIN fs)
              => fs[temp_file[p]] = p

\* C10: no step of GET / or of a /transcribe request rejected with 400 or 404
\* changes _model, calls load_model or calls transcribe; _model changes only
\* in GET /health or at the get_model call of a /transcribe request, which
\* comes after the checks; a request calls transcribe at most once.
C10_ValidationBeforeModel ==
    [][\A p \in Workers :
          /\ (/\ InFlight(p)
              /\ pc'[p] # pc[p]
              /\ \/ req[p].kind = "root"
                 \/ /\ req[p].kind = "transcribe"
                    /\ \/ exc[p].status \in {400, 404}
                       \/ exc'[p].status \in {400, 404}
                       \/ resp'[p].status \in {400, 404})
                => /\ _model' = _model
                   /\ loads' = loads
                   /\ trace'[p].load_calls = 0
                   /\ trace'[p].transcribe_calls = 0
          /\ _model'[p] # _model[p]
                => \/ req[p].kind = "health"
                   \/ req[p].kind = "transcribe" /\ pc[p] = "model"
          /\ trace'[p].transcribe_calls <= 1]_vars

\* C10 witness: a /transcribe request was answered 404 in a process whose
\* model was never loaded.
C10_Witness ==
    \E p \in Workers :
        /\ pc[p] = "done"
        /\ req[p].kind = "transcribe"
        /\ resp[p].status = 404
        /\ _model[p] = NoHandle
        /\ loads[p] = 0
        /\ trace[p].load_calls = 0

====
